---- MODULE Spec2Model ----
(***************************************************************************)
(* The session engine of server/src/server.ts: capability negotiation,     *)
(* the TextDocuments store, the per-document settings cache, the           *)
(* validation pass (validateTextDocument) and the diagnostics it sends,    *)
(* and the completion and completionItem/resolve handlers.                 *)
(*                                                                         *)
(* Node runs one handler at a time.  A handler runs to its end, and then   *)
(* the continuations of every await whose promise is settled run (the      *)
(* microtask queue) before the next message is taken.  One action of this  *)
(* module is therefore one message: the handler plus the continuations it  *)
(* makes runnable.  The only promise that stays pending across messages is *)
(* the one connection.workspace.getConfiguration returns; the client's     *)
(* answer to it is the message ConfigurationResponse.                      *)
(***************************************************************************)
EXTENDS Integers, Sequences, FiniteSets, TLC

\* ------------------------------------------------------------- bounds
\* MaxNotifications bounds the messages the client sends in a session after
\* initialize (didOpen, didChange, didClose, didChangeConfiguration,
\* didChangeWatchedFiles, completion, completionItem/resolve), and with them
\* the documents, the validation passes and the getConfiguration requests.
MaxNotifications == 3

URIs == {"a", "b"}

\* What a didOpen carries besides the URI, and what a didChange carries: the
\* version, and the text the document has once the change is applied.  A change
\* may carry a version at or below the one the document has.
OpenInputs == [version : {1}, text : {"hello", "HELLO WORLD"}]
ChangeInputs == [version : {1, 2}, text : {"hello", "HELLO WORLD"}]

\* ------------------------------------------------------------- values
Tri == {"true", "false", "absent"}

\* params.capabilities of the initialize request, field by field.
Payloads ==
    [workspace : {"object", "absent"},
     configuration : Tri,
     workspaceFolders : Tri,
     textDocument : {"object", "absent"},
     publishDiagnostics : {"object", "absent"},
     relatedInformation : Tri]

\* The capabilities a session of this model starts with: a client that declares
\* all three, and one that declares no section at all.
SessionPayloads ==
    {c \in Payloads :
        /\ c.configuration \in {"true", "absent"}
        /\ c.workspaceFolders = c.configuration
        /\ c.relatedInformation = c.configuration
        /\ c.workspace = (IF c.configuration = "true" THEN "object" ELSE "absent")
        /\ c.textDocument = c.workspace
        /\ c.publishDiagnostics = c.workspace}

\* What stands in fields when params has no capabilities object.
NoFields ==
    [workspace |-> "absent", configuration |-> "absent", workspaceFolders |-> "absent",
     textDocument |-> "absent", publishDiagnostics |-> "absent",
     relatedInformation |-> "absent"]

\* params of the initialize request: capabilities says whether
\* params.capabilities is an object, fields what that object holds.
NoCapabilities == [capabilities |-> "absent", fields |-> NoFields]
InitializeParams ==
    {[capabilities |-> "object", fields |-> c] : c \in Payloads} \cup {NoCapabilities}
SessionParams ==
    {[capabilities |-> "object", fields |-> c] : c \in SessionPayloads}
        \cup {NoCapabilities}

\* No initialize request was handled yet.
NoParams == [capabilities |-> "none", fields |-> NoFields]

\* What the initialize request was answered with: nothing yet, the
\* InitializeResult the handler returned, or the error of a handler that threw.
NoResult ==
    [status |-> "none", textDocumentSync |-> "none", resolveProvider |-> FALSE,
     workspaceFolders |-> FALSE]
ErrorResult == [NoResult EXCEPT !.status = "error"]

defaultSettings == [maxNumberOfProblems |-> 1000]

\* The settings records of this model: the client's answers to getConfiguration,
\* and the languageServerExample sections of its configuration changes.
FetchValues == {[maxNumberOfProblems |-> 1000]}
Sections == {[maxNumberOfProblems |-> 1]}

\* change.settings.languageServerExample: a record, or nothing.
NoSection == [maxNumberOfProblems |-> -1]

\* The value slot of a promise that holds no settings (pending or rejected).
NoValue == [maxNumberOfProblems |-> 0]

\* initialized: onInitialize has run to its end.  initializeParams: the params
\* of the last initialize request.  initializeResult: what it was answered with.
\* received: the messages handled since.  completions: every completion and
\* completionItem/resolve request handled, in order, with what was returned.  promises, heap: the promise and document objects the program has
\* created, by id.  passes: every call of validateTextDocument, in call order,
\* with the point it has reached.  published: every sendDiagnostics call, in
\* order, with the text the pass had read.
VARIABLES
    initialized,
    received,
    hasConfigurationCapability,
    hasWorkspaceFolderCapability,
    hasDiagnosticRelatedInformationCapability,
    globalSettings,
    documentSettings,
    promises,
    heap,
    syncedDocuments,
    passes,
    published,
    initializeParams,
    initializeResult,
    completions

caps == <<hasConfigurationCapability, hasWorkspaceFolderCapability,
          hasDiagnosticRelatedInformationCapability>>

vars == <<initialized, received, hasConfigurationCapability, hasWorkspaceFolderCapability,
          hasDiagnosticRelatedInformationCapability, globalSettings,
          documentSettings, promises, heap, syncedDocuments, passes, published,
          initializeParams, initializeResult, completions>>

\* ------------------------------------------------------------- state as a value
\* The handlers below are functions from session state to session state; the
\* actions at the end install their result.  The three capability flags are
\* read directly: only Initialize writes them.
Cur ==
    [globalSettings |-> globalSettings,
     documentSettings |-> documentSettings,
     promises |-> promises,
     heap |-> heap,
     syncedDocuments |-> syncedDocuments,
     passes |-> passes,
     published |-> published]

Install(s) ==
    /\ globalSettings' = s.globalSettings
    /\ documentSettings' = s.documentSettings
    /\ promises' = s.promises
    /\ heap' = s.heap
    /\ syncedDocuments' = s.syncedDocuments
    /\ passes' = s.passes
    /\ published' = s.published

\* ------------------------------------------------------------- Document store
\* documents: TextDocuments<TextDocument>, the stock manager of
\* vscode-languageserver over vscode-languageserver-textdocument.  heap holds
\* every TextDocument object ever created (a validation keeps a reference to the
\* object it was given); syncedDocuments is the manager's Map, in insertion
\* order, as the sequence of the objects it holds.  rev counts the updates an
\* object got.
IndexOf(s, uri) ==
    LET hits == {i \in 1..Len(s.syncedDocuments) :
                    s.heap[s.syncedDocuments[i]].uri = uri}
    IN IF hits = {} THEN 0 ELSE CHOOSE i \in hits : TRUE

IsOpen(s, uri) == IndexOf(s, uri) # 0

\* documents.get(uri)
DocOf(s, uri) == s.syncedDocuments[IndexOf(s, uri)]

\* documents.all(): the Map's values in insertion order.
all(s) == s.syncedDocuments

OpenUris(s) == {s.heap[s.syncedDocuments[i]].uri : i \in 1..Len(s.syncedDocuments)}

RemoveAt(seq, i) == SubSeq(seq, 1, i - 1) \o SubSeq(seq, i + 1, Len(seq))

\* ------------------------------------------------------------- Configuration cache
\* documentSettings: Map<string, Thenable<ExampleSettings>>, a promise id per
\* URI, 0 for no entry.  promises holds every promise getConfiguration returned.
NoEntry == 0

\* Promise.resolve(globalSettings): an already fulfilled promise, not in promises.
Immediate == 0

getDocumentSettings_nocache(s, resource) ==
    IF ~hasConfigurationCapability
    THEN [s |-> s, result |-> Immediate]
    ELSE LET p == Len(s.promises) + 1
         IN [s |-> [s EXCEPT !.promises = Append(@, [uri |-> resource,
                                                   state |-> "pending",
                                                   value |-> NoValue]),
                             !.documentSettings[resource] = p],
             result |-> p]

\* getDocumentSettings asking the client whatever the capability.
getDocumentSettings_alwaysScoped(s, resource) ==
    LET result == s.documentSettings[resource]
    IN IF result = NoEntry
       THEN LET p == Len(s.promises) + 1
            IN [s |-> [s EXCEPT !.promises = Append(@, [uri |-> resource,
                                                      state |-> "pending",
                                                      value |-> NoValue]),
                                !.documentSettings[resource] = p],
                result |-> p]
       ELSE [s |-> s, result |-> result]

getDocumentSettings(s, resource) ==
    IF ~hasConfigurationCapability
    THEN [s |-> s, result |-> Immediate]
    ELSE LET result == s.documentSettings[resource]
         IN IF result = NoEntry
            THEN LET p == Len(s.promises) + 1
                 IN [s |-> [s EXCEPT !.promises = Append(@, [uri |-> resource,
                                                           state |-> "pending",
                                                           value |-> NoValue]),
                                     !.documentSettings[resource] = p],
                     result |-> p]
            ELSE [s |-> s, result |-> result]

\* ------------------------------------------------------------- Validation
\* The scan of validateTextDocument: the while loop is commented out, so the
\* diagnostics array is sent as it was created.
diagnostics(text, settings) == << >>

\* validateTextDocument up to its await: the call of getDocumentSettings.
\* startText and startRev record the document as the pass found it.
validateTextDocument(s, d, trigger) ==
    LET g == getDocumentSettings(s, s.heap[d].uri)
    IN [g.s EXCEPT !.passes = Append(@,
            [doc |-> d,
             trigger |-> trigger,
             promise |-> g.result,
             settings |-> IF g.result = Immediate THEN s.globalSettings ELSE NoValue,
             status |-> "awaiting",
             startText |-> s.heap[d].text,
             startRev |-> s.heap[d].rev])]

Settled(s, i) ==
    \/ s.passes[i].promise = Immediate
    \/ s.promises[s.passes[i].promise].state # "pending"

Rejected(s, i) ==
    /\ s.passes[i].promise # Immediate
    /\ s.promises[s.passes[i].promise].state = "rejected"

\* getText as a snapshot taken when the pass started.
getText_snapshot(s, i) == s.passes[i].startText

\* The text a resumed pass reads: textDocument.getText() of the object it holds.
getText(s, i) == s.heap[s.passes[i].doc].text

\* resume sending only a non-empty diagnostics array.
resume_skipEmpty(s, i) ==
    IF Rejected(s, i)
    THEN [s EXCEPT !.passes[i].status = "threw"]
    ELSE LET settings == IF s.passes[i].promise = Immediate
                         THEN s.passes[i].settings
                         ELSE s.promises[s.passes[i].promise].value
             text == getText(s, i)
         IN IF diagnostics(text, settings) = << >>
            THEN [s EXCEPT !.passes[i].status = "published",
                           !.passes[i].settings = settings]
            ELSE [s EXCEPT !.passes[i].status = "published",
                           !.passes[i].settings = settings,
                           !.published = Append(@,
                               [uri |-> s.heap[s.passes[i].doc].uri,
                                diagnostics |-> diagnostics(text, settings),
                                pass |-> i,
                                text |-> text,
                                rev |-> s.heap[s.passes[i].doc].rev])]

\* validateTextDocument from its await on.  A rejected promise makes the await
\* throw: the function has no catch, so the pass ends there.
resume(s, i) ==
    IF Rejected(s, i)
    THEN [s EXCEPT !.passes[i].status = "threw"]
    ELSE LET settings == IF s.passes[i].promise = Immediate
                         THEN s.passes[i].settings
                         ELSE s.promises[s.passes[i].promise].value
             text == getText(s, i)
         IN [s EXCEPT !.passes[i].status = "published",
                      !.passes[i].settings = settings,
                      !.published = Append(@,
                          [uri |-> s.heap[s.passes[i].doc].uri,
                           diagnostics |-> diagnostics(text, settings),
                           pass |-> i,
                           text |-> text,
                           rev |-> s.heap[s.passes[i].doc].rev])]

\* A queue that runs the passes strictly in call order: it stops at the first
\* pass whose promise is pending.
RECURSIVE RunFrom_serial(_, _)
RunFrom_serial(s, i) ==
    IF i > Len(s.passes) THEN s
    ELSE IF s.passes[i].status = "awaiting" /\ ~Settled(s, i) THEN s
    ELSE RunFrom_serial(IF s.passes[i].status = "awaiting" THEN resume(s, i) ELSE s,
                        i + 1)

\* The microtask queue: the continuations of the settled awaits, in the order
\* the awaits were made.
RECURSIVE RunFrom(_, _)
RunFrom(s, i) ==
    IF i > Len(s.passes) THEN s
    ELSE RunFrom(IF s.passes[i].status = "awaiting" /\ Settled(s, i)
                 THEN resume(s, i) ELSE s,
                 i + 1)

RunMicrotasks(s) == RunFrom(s, 1)

\* ------------------------------------------------------------- handlers
\* documents.onDidChangeContent
onDidChangeContent(s, d, trigger) == validateTextDocument(s, d, trigger)

\* onDidClose leaving the cache entry in place.
onDidClose_keep(s, uri) == s

\* documents.onDidClose
onDidClose(s, uri) == [s EXCEPT !.documentSettings[uri] = NoEntry]

\* TextDocuments.listen: textDocument/didOpen creates a document object, puts it
\* in the Map under its URI (an open URI keeps its place) and fires
\* onDidChangeContent.
onDidOpenTextDocument(s, uri, version, text) ==
    LET d == Len(s.heap) + 1
        s1 == [s EXCEPT !.heap = Append(@, [uri |-> uri, text |-> text,
                                            version |-> version, rev |-> 0]),
                        !.syncedDocuments =
                            IF IsOpen(s, uri)
                            THEN [@ EXCEPT ![IndexOf(s, uri)] = d]
                            ELSE Append(@, d)]
    IN onDidChangeContent(s1, d, "open")

\* TextDocuments.listen: textDocument/didChange updates the stored object in
\* place with the notification's text and version and fires onDidChangeContent;
\* for a URI that is not open it does nothing.
onDidChangeTextDocument(s, uri, version, text) ==
    IF ~IsOpen(s, uri) THEN s
    ELSE LET d == DocOf(s, uri)
             s1 == [s EXCEPT !.heap[d].text = text,
                             !.heap[d].version = version,
                             !.heap[d].rev = @ + 1]
         IN onDidChangeContent(s1, d, "change")

\* didClose deleting the Map entry without firing onDidClose.
onDidCloseTextDocument_silent(s, uri) ==
    IF ~IsOpen(s, uri) THEN s
    ELSE [s EXCEPT !.syncedDocuments = RemoveAt(@, IndexOf(s, uri))]

\* TextDocuments.listen: textDocument/didClose deletes the Map entry and fires
\* onDidClose; for a URI that is not open it does nothing.
onDidCloseTextDocument(s, uri) ==
    IF ~IsOpen(s, uri) THEN s
    ELSE onDidClose([s EXCEPT !.syncedDocuments = RemoveAt(@, IndexOf(s, uri))], uri)

\* forEach visiting the documents last to first.
RECURSIVE forEachValidate_reverse(_, _, _)
forEachValidate_reverse(s, docs, k) ==
    IF k > Len(docs) THEN s
    ELSE forEachValidate_reverse(
             validateTextDocument(s, docs[Len(docs) + 1 - k], "config"), docs, k + 1)

\* documents.all().forEach(validateTextDocument)
RECURSIVE forEachValidate(_, _, _)
forEachValidate(s, docs, k) ==
    IF k > Len(docs) THEN s
    ELSE forEachValidate(validateTextDocument(s, docs[k], "config"), docs, k + 1)

\* onDidChangeConfiguration without documentSettings.clear().
onDidChangeConfiguration_noclear(s, section) ==
    LET s1 == IF hasConfigurationCapability
              THEN s
              ELSE [s EXCEPT !.globalSettings =
                        IF section = NoSection THEN defaultSettings ELSE section]
    IN forEachValidate(s1, all(s1), 1)

\* onDidChangeConfiguration keeping the global record when the change carries
\* no section.
onDidChangeConfiguration_keepGlobal(s, section) ==
    LET s1 == IF hasConfigurationCapability
              THEN [s EXCEPT !.documentSettings = [u \in URIs |-> NoEntry]]
              ELSE [s EXCEPT !.globalSettings =
                        IF section = NoSection THEN @ ELSE section]
    IN forEachValidate(s1, all(s1), 1)

\* connection.onDidChangeConfiguration
onDidChangeConfiguration(s, section) ==
    LET s1 == IF hasConfigurationCapability
              THEN [s EXCEPT !.documentSettings = [u \in URIs |-> NoEntry]]
              ELSE [s EXCEPT !.globalSettings =
                        IF section = NoSection THEN defaultSettings ELSE section]
    IN forEachValidate(s1, all(s1), 1)

\* The client's answer to one getConfiguration request settles its promise.
settle(s, p, outcome) ==
    [s EXCEPT !.promises[p].state = outcome.state,
              !.promises[p].value = outcome.value]

Outcomes ==
    [state : {"fulfilled"}, value : FetchValues]
        \cup {[state |-> "rejected", value |-> NoValue]}

Truthy(v) == v = "true"

\* ------------------------------------------------------------- Completion
\* A field a CompletionItem does not have.
undefined == "undefined"
NoData == -1

\* CompletionItemKind.Text
Text == "Text"

CompletionItem(label, data) ==
    [label |-> label, kind |-> Text, data |-> data,
     detail |-> undefined, documentation |-> undefined]

\* The array literal of onCompletion.
catalog ==
    << CompletionItem("var", 3),
       CompletionItem("f16", 2), CompletionItem("f32", 2), CompletionItem("f64", 2),
       CompletionItem("f128", 2), CompletionItem("BFloat16", 2),
       CompletionItem("String", 4), CompletionItem("StringView", 4),
       CompletionItem("i8", 1), CompletionItem("i16", 1), CompletionItem("i32", 1),
       CompletionItem("i64", 1), CompletionItem("i128", 1), CompletionItem("i256", 1),
       CompletionItem("u8", 1), CompletionItem("u16", 1), CompletionItem("u32", 1),
       CompletionItem("u64", 1), CompletionItem("u128", 1), CompletionItem("u256", 1),
       CompletionItem("if", 6), CompletionItem("while", 6), CompletionItem("then", 6),
       CompletionItem("else", 6), CompletionItem("Carbon", 6), CompletionItem("Swap", 6),
       CompletionItem("Size", 6), CompletionItem("fn", 6), CompletionItem("Slice", 6),
       CompletionItem("in", 6) >>

\* onCompletion leaving out the declarator away from position 0.
onCompletion_filtered(textDocumentPosition) ==
    IF textDocumentPosition.position = 0 THEN catalog ELSE Tail(catalog)

\* connection.onCompletion: the array literal, built anew by every call,
\* whatever the request says.
onCompletion(textDocumentPosition) == catalog

\* The if-chain of onCompletionResolve: the item after the assignments its tag
\* selects.
assignDetail(item) ==
    IF item.data = 1 THEN
        [item EXCEPT
           !.detail = "Carbon Signed Integer Type",
           !.documentation = "Contains a integer value. You can set the number of bits by using i16, i32, i64, i128, or i256."]
    ELSE IF item.data = 2 THEN
        [item EXCEPT
           !.detail = "Carbon Floating Point Type",
           !.documentation = "This is a floating point"]
    ELSE IF item.data = 3 THEN
        [item EXCEPT
           !.detail = "Carbon Var",
           !.documentation = "A var declares a variable."]
    ELSE IF item.data = 4 THEN
        [item EXCEPT
           !.detail = "Carbon String",
           !.documentation = "A String is a byte sequence treated as containing UTF-8 encoded text. A StringView is a read only variation of a String."]
    ELSE IF item.data = 5 THEN
        [item EXCEPT
           !.detail = "Carbon Floating Point Type",
           !.documentation = "Contains a floating point value that rounds-to-nearest. You can set the number of bits by using f16, f32, f64, and f128. BFloat16 is also supported."]
    ELSE IF item.data = 6 THEN
        [item EXCEPT
           !.detail = "Carbon Function",
           !.documentation = "Function - Description to be added."]
    ELSE item

\* onCompletionResolve giving BFloat16 the text of tag 5.
onCompletionResolve_byLabel(item) ==
    LET after == IF item.label = "BFloat16"
                 THEN [assignDetail([item EXCEPT !.data = 5]) EXCEPT !.data = item.data]
                 ELSE assignDetail(item)
    IN [argument |-> after, result |-> after, same |-> TRUE]

\* onCompletionResolve returning an augmented copy and leaving its argument alone.
onCompletionResolve_copy(item) ==
    [argument |-> item, result |-> assignDetail(item), same |-> FALSE]

\* connection.onCompletionResolve.  The handler assigns to the fields of the
\* object it is given and returns that object: argument is the given object when
\* the handler ends, result the returned value, same says that the returned
\* object is the given one.
onCompletionResolve(item) ==
    [argument |-> assignDetail(item), result |-> assignDetail(item), same |-> TRUE]

\* The completion requests of this model: both URIs, two positions.
CompletionParams == [uri : URIs, position : {0, 7}]

\* The items a client asks to resolve: items of the list it was given (these
\* labels), items of its own making with tag 5, with a tag outside 1..6 and
\* with no tag, and any item an earlier resolve returned.
ResolveLabels == {"var", "f16", "BFloat16", "String", "i8", "u256", "if", "in"}
ListedItems ==
    LET listed == onCompletion([uri |-> "a", position |-> 0])
    IN {listed[k] : k \in {j \in 1..Len(listed) : listed[j].label \in ResolveLabels}}
OwnItems ==
    {CompletionItem("float", 5), CompletionItem("other", 7), CompletionItem("plain", NoData)}
NoItem == CompletionItem("", NoData)

\* ------------------------------------------------------------- actions
Init ==
    /\ initialized = FALSE
    /\ received = 0
    /\ hasConfigurationCapability = FALSE
    /\ hasWorkspaceFolderCapability = FALSE
    /\ hasDiagnosticRelatedInformationCapability = FALSE
    /\ globalSettings = defaultSettings
    /\ documentSettings = [u \in URIs |-> NoEntry]
    /\ promises = << >>
    /\ heap = << >>
    /\ syncedDocuments = << >>
    /\ passes = << >>
    /\ published = << >>
    /\ initializeParams = NoParams
    /\ initializeResult = NoResult
    /\ completions = << >>

\* connection.onInitialize.  With no capabilities object the first read,
\* capabilities.workspace, throws: nothing was assigned yet, and the request is
\* answered with an error.
Initialize(params) ==
    /\ ~initialized
    /\ initializeParams' = params
    /\ IF params.capabilities = "absent"
       THEN /\ initializeResult' = ErrorResult
            /\ UNCHANGED <<initialized, caps>>
       ELSE LET capabilities == params.fields
            IN /\ initialized' = TRUE
               /\ hasConfigurationCapability' =
                     (capabilities.workspace = "object"
                        /\ Truthy(capabilities.configuration))
               /\ hasWorkspaceFolderCapability' =
                     (capabilities.workspace = "object"
                        /\ Truthy(capabilities.workspaceFolders))
               /\ hasDiagnosticRelatedInformationCapability' =
                     (/\ capabilities.textDocument = "object"
                      /\ capabilities.publishDiagnostics = "object"
                      /\ Truthy(capabilities.relatedInformation))
               /\ initializeResult' =
                     [status |-> "result",
                      textDocumentSync |-> "Incremental",
                      resolveProvider |-> TRUE,
                      workspaceFolders |-> hasWorkspaceFolderCapability']
    /\ UNCHANGED <<received, globalSettings, documentSettings, promises, heap,
                   syncedDocuments, passes, published, completions>>

\* Handle with a handler that turns the configuration flag off.
Handle_writesFlag(s) ==
    /\ Install(RunMicrotasks(s))
    /\ hasConfigurationCapability' = FALSE
    /\ UNCHANGED <<initialized, hasWorkspaceFolderCapability,
                   hasDiagnosticRelatedInformationCapability,
                   initializeParams, initializeResult>>

\* One message: the handler's result s, then the continuations it made runnable.
Handle(s) ==
    /\ Install(RunMicrotasks(s))
    /\ UNCHANGED <<initialized, caps, initializeParams, initializeResult>>

\* A notification of the client; received counts them.
Notification(s) ==
    /\ received < MaxNotifications
    /\ received' = received + 1
    /\ Handle(s)

DidOpen(uri, version, text) ==
    /\ initialized
    /\ Notification(onDidOpenTextDocument(Cur, uri, version, text))
    /\ UNCHANGED completions

DidChange(uri, version, text) ==
    /\ initialized
    /\ IsOpen(Cur, uri)
    /\ Notification(onDidChangeTextDocument(Cur, uri, version, text))
    /\ UNCHANGED completions

DidClose(uri) ==
    /\ initialized
    /\ IsOpen(Cur, uri)
    /\ Notification(onDidCloseTextDocument(Cur, uri))
    /\ UNCHANGED completions

DidChangeConfiguration(section) ==
    /\ initialized
    /\ Notification(onDidChangeConfiguration(Cur, section))
    /\ UNCHANGED completions

\* connection.onDidChangeWatchedFiles: a line on the console, nothing else.
DidChangeWatchedFiles ==
    /\ initialized
    /\ Notification(Cur)
    /\ UNCHANGED completions

\* A completion request; its answer is logged.
Completion(textDocumentPosition) ==
    /\ initialized
    /\ Notification(Cur)
    /\ completions' =
          Append(completions,
                 [method |-> "textDocument/completion",
                  textDocumentPosition |-> textDocumentPosition,
                  items |-> onCompletion(textDocumentPosition),
                  param |-> NoItem, argument |-> NoItem, item |-> NoItem,
                  same |-> FALSE])

\* A completionItem/resolve request for item; the exchange is logged.
CompletionResolve(item) ==
    /\ initialized
    /\ Notification(Cur)
    /\ completions' =
          LET r == onCompletionResolve(item)
          IN Append(completions,
                    [method |-> "completionItem/resolve",
                     textDocumentPosition |-> [uri |-> "", position |-> 0],
                     items |-> << >>,
                     param |-> item, argument |-> r.argument, item |-> r.result,
                     same |-> r.same])

\* The items earlier resolve requests returned.
ResolvedItems ==
    {completions[k].item :
        k \in {j \in 1..Len(completions) :
                  completions[j].method = "completionItem/resolve"}}

ConfigurationResponse(p, outcome) ==
    /\ initialized
    /\ promises[p].state = "pending"
    /\ Handle(settle(Cur, p, outcome))
    /\ UNCHANGED <<received, completions>>

Resolve ==
    \E i \in ListedItems \cup OwnItems \cup ResolvedItems : CompletionResolve(i)

Response == \E p \in 1..Len(promises), o \in Outcomes : ConfigurationResponse(p, o)

Next ==
    \/ \E p \in SessionParams : Initialize(p)
    \/ \E u \in URIs, o \in OpenInputs : DidOpen(u, o.version, o.text)
    \/ \E u \in URIs, c \in ChangeInputs : DidChange(u, c.version, c.text)
    \/ \E u \in URIs : DidClose(u)
    \/ \E sec \in Sections \cup {NoSection} : DidChangeConfiguration(sec)
    \/ DidChangeWatchedFiles
    \/ \E c \in CompletionParams : Completion(c)
    \/ Resolve
    \/ Response

Spec == Init /\ [][Next]_vars

\* Initialization alone, over every shape of params.
InitNext == \E p \in InitializeParams : Initialize(p)
InitSpec == Init /\ [][InitNext]_vars

\* ------------------------------------------------------------- what the claims speak of
\* The passes a step starts, and the sendDiagnostics calls it makes.
NewPasses == (Len(passes) + 1)..Len(passes')
NewFetches == (Len(promises) + 1)..Len(promises')
NewPublished == (Len(published) + 1)..Len(published')

UriOfPass(i) == heap[passes[i].doc].uri
PubsBy(i) == {k \in 1..Len(published) : published[k].pass = i}
PubsFor(uri) == {k \in 1..Len(published) : published[k].uri = uri}
PassesFor(uri) == {i \in 1..Len(passes) : UriOfPass(i) = uri}
PassSettled(i) ==
    \/ passes[i].promise = Immediate
    \/ promises[passes[i].promise].state # "pending"

ValidationOf(uri) ==
    \/ \E o \in OpenInputs : DidOpen(uri, o.version, o.text)
    \/ \E c \in ChangeInputs : DidChange(uri, c.version, c.text)

\* C1: in scoped mode, while the resolution cached for a URI is pending, a
\* validation of that URI (an open or a change; no configuration change, no
\* close) issues no getConfiguration request: the one request made for the URI
\* stays the only one, the cache keeps it, and the pass awaits that same promise.
C1_PendingResolutionShared ==
    [][\A u \in URIs :
          (/\ hasConfigurationCapability
           /\ documentSettings[u] # NoEntry
           /\ promises[documentSettings[u]].state = "pending"
           /\ ValidationOf(u))
          => /\ NewFetches = {}
             /\ documentSettings'[u] = documentSettings[u]
             /\ NewPasses # {}
             /\ \A i \in NewPasses :
                   /\ passes'[i].promise = documentSettings[u]
                   /\ passes'[i].status = "awaiting"]_vars

\* Two passes of one URI await the one pending promise the cache holds for it.
C1_Witness ==
    \E i, j \in 1..Len(passes) :
        /\ i < j
        /\ UriOfPass(i) = UriOfPass(j)
        /\ passes[i].status = "awaiting" /\ passes[j].status = "awaiting"
        /\ passes[i].promise = passes[j].promise
        /\ documentSettings[UriOfPass(i)] = passes[i].promise
        /\ Cardinality({p \in 1..Len(promises) : promises[p].uri = UriOfPass(i)}) = 1

\* C2 as stated: a pass a content change started publishes from the text as it
\* was right after that change, never a later one.
C2_AsStated ==
    \A k \in 1..Len(published) :
        passes[published[k].pass].trigger = "change"
        => /\ published[k].rev = passes[published[k].pass].startRev
           /\ published[k].text = passes[published[k].pass].startText

\* C2 amended: a pass a content change started publishes from the text its
\* document object holds when the pass resumes: the text of that change if no
\* further change was applied meanwhile, the latest applied text otherwise,
\* never an earlier one.
C2_TextAtResume ==
    [][\A k \in NewPublished :
          LET ps == passes'[published'[k].pass]
          IN ps.trigger = "change"
             => /\ published'[k].text = heap'[ps.doc].text
                /\ published'[k].rev = heap'[ps.doc].rev
                /\ published'[k].rev >= ps.startRev
                /\ (published'[k].rev = ps.startRev
                      => published'[k].text = ps.startText)]_vars

\* A pass a change started published after a further change of its document.
C2_Witness ==
    \E k \in 1..Len(published) :
        /\ passes[published[k].pass].trigger = "change"
        /\ published[k].rev > passes[published[k].pass].startRev
        /\ published[k].text # passes[published[k].pass].startText

\* C3 as stated: when a resolution fails, the pass that awaited it still
\* publishes, and the failed result does not stay in the cache (so that the
\* next lookup issues a new resolution).
C3_AsStated ==
    /\ \A i \in 1..Len(passes) :
          (passes[i].promise # Immediate
             /\ promises[passes[i].promise].state = "rejected")
          => PubsBy(i) # {}
    /\ \A u \in URIs :
          documentSettings[u] # NoEntry
          => promises[documentSettings[u]].state # "rejected"

\* C4: in scoped mode a configuration change issues, for every URI the cache
\* held, exactly one new getConfiguration request; the cache then holds that
\* new promise and the pass started for the URI awaits it.
C4_OneFreshResolution ==
    [][(hasConfigurationCapability
          /\ \E sec \in Sections \cup {NoSection} : DidChangeConfiguration(sec))
       => \A u \in URIs :
             documentSettings[u] # NoEntry
             => /\ Cardinality({p \in NewFetches : promises'[p].uri = u}) = 1
                /\ documentSettings'[u] \in NewFetches
                /\ promises'[documentSettings'[u]].state = "pending"
                /\ \E i \in NewPasses : heap'[passes'[i].doc].uri = u
                /\ \A i \in NewPasses :
                      heap'[passes'[i].doc].uri = u
                      => passes'[i].promise = documentSettings'[u]]_vars

\* Both URIs were cached, a configuration change came, and each has a second
\* request in the cache.
C4_Witness ==
    /\ hasConfigurationCapability
    /\ \A u \in URIs :
          /\ documentSettings[u] # NoEntry
          /\ Cardinality({p \in 1..Len(promises) : promises[p].uri = u}) = 2
          /\ \E i \in 1..Len(passes) :
                /\ passes[i].trigger = "config"
                /\ passes[i].promise = documentSettings[u]

\* No pass is suspended.
Quiescent == \A i \in 1..Len(passes) : passes[i].status # "awaiting"

\* The URI was opened once and never closed or reopened.
NeverReopened(uri) ==
    Cardinality({d \in 1..Len(heap) : heap[d].uri = uri}) = 1

\* C5 as stated: once every pass has ended, the last diagnostics published for
\* an open document (never closed or reopened) are those of its latest text.
C5_AsStated ==
    Quiescent
    => \A u \in URIs :
          (IsOpen(Cur, u) /\ NeverReopened(u) /\ PubsFor(u) # {})
          => LET last == CHOOSE k \in PubsFor(u) : \A m \in PubsFor(u) : m <= k
             IN published[last].text = heap[DocOf(Cur, u)].text

\* C6 as stated: every started pass whose settings resolution has completed has
\* published exactly one diagnostic sequence for its document's URI.
C6_AsStated ==
    \A i \in 1..Len(passes) :
        PassSettled(i)
        => /\ Cardinality(PubsBy(i)) = 1
           /\ \A k \in PubsBy(i) : published[k].uri = UriOfPass(i)

\* The scenario of C7: a was opened with "hello" at version 1 and then changed
\* to "HELLO WORLD" at version 2, and nothing else happened to a.  i is the pass
\* the open started, j the pass the change started.
Scenario(i, j) ==
    /\ i < j
    /\ PassesFor("a") = {i, j}
    /\ passes[i].doc = passes[j].doc
    /\ IsOpen(Cur, "a") /\ DocOf(Cur, "a") = passes[i].doc
    /\ passes[i].trigger = "open" /\ passes[i].startText = "hello"
    /\ passes[j].trigger = "change" /\ passes[j].startText = "HELLO WORLD"
    /\ heap[passes[j].doc].version = 2
    /\ heap[passes[j].doc].rev = 1

Has1000(i) ==
    /\ PassSettled(i)
    /\ passes[i].settings = [maxNumberOfProblems |-> 1000]

\* C7 as stated: in the scenario, with maximum-problems 1000, there is exactly
\* one publish for a, for the version-2 text, and none for the version-1 text.
C7_AsStated ==
    \A i, j \in 1..Len(passes) :
        (Scenario(i, j) /\ Has1000(i) /\ Has1000(j))
        => /\ Cardinality(PubsFor("a")) = 1
           /\ \A k \in PubsFor("a") : published[k].text = "HELLO WORLD"

\* C7 amended: in the scenario each of the two passes publishes at most once
\* and nothing else publishes for a; the pass the change started publishes for
\* the version-2 text, never for the version-1 text; with maximum-problems 1000
\* resolved for both passes there are exactly two publishes for a, the one of
\* the open's pass being for the text the document held when that pass resumed.
C7_OncePerPass ==
    \A i, j \in 1..Len(passes) :
        Scenario(i, j)
        => /\ PubsFor("a") = PubsBy(i) \cup PubsBy(j)
           /\ Cardinality(PubsBy(i)) <= 1
           /\ Cardinality(PubsBy(j)) <= 1
           /\ \A k \in PubsBy(j) : published[k].text = "HELLO WORLD"
           /\ (Has1000(i) /\ Has1000(j))
                 => /\ Cardinality(PubsBy(i)) = 1
                    /\ Cardinality(PubsBy(j)) = 1
                    /\ \A k \in PubsBy(i), m \in PubsBy(j) : k < m

\* The scenario has run to its end and the open's pass published the version-1 text.
C7_Witness ==
    \E i, j \in 1..Len(passes) :
        /\ Scenario(i, j) /\ Has1000(i) /\ Has1000(j)
        /\ \E k \in PubsBy(i) : published[k].text = "hello"
        /\ \E k \in PubsBy(j) : published[k].text = "HELLO WORLD"

\* C8: a close removes the URI from the store and from the cache, also while a
\* pass of that URI is suspended; a URI that is not open has no cache entry; and
\* in scoped mode an open of a URI that is not open issues a new getConfiguration
\* request, which the pass it starts awaits.
C8_CloseForgets ==
    [][\A u \in URIs :
          /\ DidClose(u)
                => /\ ~IsOpen(Cur', u)
                   /\ documentSettings'[u] = NoEntry
          /\ ~IsOpen(Cur, u) => documentSettings[u] = NoEntry
          /\ (/\ ~IsOpen(Cur, u)
              /\ hasConfigurationCapability
              /\ \E o \in OpenInputs : DidOpen(u, o.version, o.text))
                => /\ NewFetches # {}
                   /\ documentSettings'[u] \in NewFetches
                   /\ promises'[documentSettings'[u]].state = "pending"
                   /\ \A i \in NewPasses :
                         passes'[i].promise = documentSettings'[u]]_vars

\* A URI was closed while a pass of it was suspended and then opened again: the
\* old pass still awaits the old promise, the new pass awaits a new one.
C8_Witness ==
    \E i, j \in 1..Len(passes) :
        /\ i < j
        /\ UriOfPass(i) = UriOfPass(j)
        /\ passes[i].doc # passes[j].doc
        /\ passes[i].status = "awaiting"
        /\ passes[j].trigger = "open"
        /\ passes[i].promise # Immediate
        /\ passes[j].promise > passes[i].promise
        /\ documentSettings[UriOfPass(j)] = passes[j].promise

\* C9: a configuration change starts one pass for every open document and no
\* other, in the order documents.all() lists them, in either mode.
C9_RevalidatesAllInOrder ==
    [][(\E sec \in Sections \cup {NoSection} : DidChangeConfiguration(sec))
       => /\ Len(passes') = Len(passes) + Len(syncedDocuments)
          /\ syncedDocuments' = syncedDocuments
          /\ \A k \in 1..Len(syncedDocuments) :
                /\ passes'[Len(passes) + k].doc = syncedDocuments[k]
                /\ passes'[Len(passes) + k].trigger = "config"]_vars

\* A configuration change in scoped mode started passes for two open documents.
C9_Witness ==
    /\ hasConfigurationCapability
    /\ Len(syncedDocuments) = 2
    /\ Len(passes) = 4
    /\ passes[3].trigger = "config" /\ passes[3].doc = syncedDocuments[1]
    /\ passes[4].trigger = "config" /\ passes[4].doc = syncedDocuments[2]

\* C10 as stated: a change whose version is not greater than the stored version
\* leaves the stored text and version as they were.
C10_AsStated ==
    [][\A u \in URIs, c \in ChangeInputs :
          (DidChange(u, c.version, c.text)
             /\ c.version <= heap[DocOf(Cur, u)].version)
          => /\ heap'[DocOf(Cur, u)].text = heap[DocOf(Cur, u)].text
             /\ heap'[DocOf(Cur, u)].version = heap[DocOf(Cur, u)].version]_vars

\* What the fields of the last initialize request say: the capability is
\* declared when its field is there and truthy.
Declared(section, field) ==
    /\ initializeParams.capabilities = "object"
    /\ initializeParams.fields[section] = "object"
    /\ initializeParams.fields[field] = "true"

\* C11 as stated: whatever the params of an initialize request lack (the
\* workspace section, the textDocument section, the capabilities object), the
\* request is answered with a result, not an error, and each flag is true
\* exactly when its field is there and truthy.
C11_AsStated ==
    initializeParams # NoParams
    => /\ initializeResult.status = "result"
       /\ hasConfigurationCapability = Declared("workspace", "configuration")
       /\ hasWorkspaceFolderCapability = Declared("workspace", "workspaceFolders")
       /\ hasDiagnosticRelatedInformationCapability =
             (/\ Declared("textDocument", "relatedInformation")
              /\ initializeParams.fields.publishDiagnostics = "object")

\* C12: only the initialize handler writes the three capability flags: every
\* other step (configuration change, open, change, close, watched files,
\* completion, resolve, a resumed validation) leaves them as they are, so after
\* initialization they keep the values it gave them.
C12_FlagsFixed ==
    [][/\ (~ \E p \in SessionParams : Initialize(p)) => UNCHANGED caps
       /\ initialized
             => /\ UNCHANGED caps
                /\ hasConfigurationCapability =
                      Declared("workspace", "configuration")
                /\ hasWorkspaceFolderCapability =
                      Declared("workspace", "workspaceFolders")
                /\ hasDiagnosticRelatedInformationCapability =
                      (/\ Declared("textDocument", "relatedInformation")
                       /\ initializeParams.fields.publishDiagnostics = "object")]_vars

\* The flags are still on after three messages, among them a validation that
\* was resumed and published and a resolve request.
C12_Witness ==
    /\ hasConfigurationCapability
    /\ hasWorkspaceFolderCapability
    /\ hasDiagnosticRelatedInformationCapability
    /\ received = MaxNotifications
    /\ published # << >>
    /\ \E k \in 1..Len(completions) : completions[k].method = "completionItem/resolve"

\* C13: without the configuration capability no getConfiguration request is
\* ever made and the cache never gets an entry; every validation pass gets,
\* without suspending across messages, the global record as it is when the pass
\* starts (the one a configuration change has just installed included).
C13_GlobalRecordNoFetch ==
    [][~hasConfigurationCapability'
       => /\ promises' = << >>
          /\ \A u \in URIs : documentSettings'[u] = NoEntry
          /\ \A i \in NewPasses :
                /\ passes'[i].promise = Immediate
                /\ passes'[i].settings = globalSettings'
                /\ passes'[i].status = "published"]_vars

\* Without the capability, passes ran under two different global records.
C13_Witness ==
    /\ initialized
    /\ ~hasConfigurationCapability
    /\ \E i, j \in 1..Len(passes) :
          /\ passes[i].settings = defaultSettings
          /\ passes[j].settings \in Sections
          /\ passes[j].settings = globalSettings
          /\ passes[j].status = "published"

UppercaseWords(text) ==
    CASE text = "hello" -> << >>
      [] text = "HELLO WORLD" -> <<"HELLO", "WORLD">>

Min(a, b) == IF a <= b THEN a ELSE b

\* C15 as stated: a published sequence holds one diagnostic per match of the
\* pattern in the text the pass read, in text order, cut at the
\* maximum-problem-count of the settings the pass got: its length is the
\* smaller of the number of matches and that threshold.
C15_AsStated ==
    \A k \in 1..Len(published) :
        LET words == UppercaseWords(published[k].text)
            threshold == passes[published[k].pass].settings.maxNumberOfProblems
            n == Min(Len(words), threshold)
        IN /\ Len(published[k].diagnostics) = n
           /\ Len(published[k].diagnostics) <= threshold
           /\ \A m \in 1..n : published[k].diagnostics[m] = words[m]

\* The resolve exchanges in the log.
Resolves ==
    {k \in 1..Len(completions) : completions[k].method = "completionItem/resolve"}
Lists ==
    {k \in 1..Len(completions) : completions[k].method = "textDocument/completion"}

\* C16: whatever happened before in the session, two resolve requests for
\* items with the same tag (two items of the list, or an item and the item an
\* earlier resolve returned for it) return the same detail and documentation.
C16_ResolveByTag ==
    \A i, j \in Resolves :
        completions[i].param.data = completions[j].param.data
        => /\ completions[i].item.detail = completions[j].item.detail
           /\ completions[i].item.documentation = completions[j].item.documentation

\* Two listed items with different labels and the same tag were resolved, and
\* so was an item that an earlier resolve had returned.
C16_Witness ==
    /\ \E i, j \in Resolves :
          /\ completions[i].param.label # completions[j].param.label
          /\ completions[i].param.data = completions[j].param.data
          /\ completions[i].param.data \in 1..6
          /\ completions[i].item.detail # undefined
    /\ \E i, j \in Resolves :
          /\ i < j
          /\ completions[j].param = completions[i].item
          /\ completions[j].param.detail # undefined

\* The session state a completion request or a resolve request must not touch.
session == <<initialized, caps, globalSettings, documentSettings, promises, heap,
             syncedDocuments, passes, published, initializeParams, initializeResult>>

\* C17 as stated: resolve changes no state; the item it was given is afterwards
\* as it was and the returned item is another object, the given one augmented
\* with detail and documentation; an item with a tag outside 1..6 or with no
\* tag comes back with every field as it was.
C17_AsStated ==
    \A k \in Resolves :
        LET e == completions[k]
        IN /\ e.argument = e.param
           /\ e.item.label = e.param.label
           /\ e.item.kind = e.param.kind
           /\ e.item.data = e.param.data
           /\ e.param.data \in 1..6
                 => /\ ~e.same
                    /\ e.item.detail # undefined
                    /\ e.item.documentation # undefined
           /\ e.param.data \notin 1..6 => e.item = e.param

\* C17 amended: resolve changes no session state and fails on no item.  It
\* returns the very item it was given, not a copy: for a tag in 1..6 it has
\* written detail and documentation into that item (label, kind and tag stay),
\* so the given item is changed; for a tag outside 1..6 or no tag the item
\* comes back with every field as it was.
C17_ResolveInPlace ==
    [][Resolve
       => /\ UNCHANGED session
          /\ Len(completions') = Len(completions) + 1
          /\ LET e == completions'[Len(completions')]
             IN /\ e.method = "completionItem/resolve"
                /\ e.same
                /\ e.item = e.argument
                /\ e.item.label = e.param.label
                /\ e.item.kind = e.param.kind
                /\ e.item.data = e.param.data
                /\ e.param.data \in 1..6
                      => /\ e.item.detail # undefined
                         /\ e.item.documentation # undefined
                         /\ (e.param.detail = undefined => e.argument # e.param)
                /\ e.param.data \notin 1..6 => e.item = e.param]_vars

\* A listed item was resolved in place, and an item with a tag outside 1..6 and
\* one with no tag came back as they were.
C17_Witness ==
    /\ \E k \in Resolves :
          /\ completions[k].param.data \in 1..6
          /\ completions[k].param.detail = undefined
          /\ completions[k].argument.detail # undefined
          /\ completions[k].same
    /\ \E k \in Resolves :
          /\ completions[k].param.data = 7
          /\ completions[k].item = completions[k].param
    /\ \E k \in Resolves :
          /\ completions[k].param.data = NoData
          /\ completions[k].item = completions[k].param

\* C18: every completion request is answered with the same sequence of items,
\* whatever its URI and position and whatever came before (resolve requests
\* for listed items included): the items carry no detail or documentation,
\* every item with tag 1 to 4 stands before every item with tag 6, and no item
\* has tag 5.
C18_SameCatalog ==
    \A i \in Lists :
        LET items == completions[i].items
        IN /\ \A j \in Lists : completions[j].items = items
           /\ items # << >>
           /\ \A a, b \in 1..Len(items) :
                 (items[a].data \in 1..4 /\ items[b].data = 6) => a < b
           /\ \A a \in 1..Len(items) :
                 /\ items[a].data # 5
                 /\ items[a].data \in 1..6
                 /\ items[a].detail = undefined
                 /\ items[a].documentation = undefined

\* Two lists for different URIs and positions, with a listed item resolved in
\* between.
C18_Witness ==
    \E i, j \in Lists, r \in Resolves :
        /\ i < r /\ r < j
        /\ completions[i].textDocumentPosition.uri
              # completions[j].textDocumentPosition.uri
        /\ completions[i].textDocumentPosition.position
              # completions[j].textDocumentPosition.position
        /\ \E a \in 1..Len(completions[i].items) :
              completions[r].param = completions[i].items[a]
        /\ completions[r].item.detail # undefined

\* The URIs with an entry in documentSettings.
CachedUris == {u \in URIs : documentSettings[u] # NoEntry}

\* C19: in every reachable state the URIs with an entry in the settings cache
\* are among the URIs of the open documents, so the cache has no more entries
\* than there are open documents.
C19_CacheWithinOpen ==
    /\ CachedUris \subseteq OpenUris(Cur)
    /\ Cardinality(CachedUris) <= Len(syncedDocuments)

\* One document is open and cached; another was opened, got its entry, and was
\* closed, and its entry is gone.
C19_Witness ==
    \E u, w \in URIs :
        /\ u # w
        /\ IsOpen(Cur, u) /\ u \in CachedUris
        /\ ~IsOpen(Cur, w) /\ w \notin CachedUris
        /\ \E p \in 1..Len(promises) : promises[p].uri = w

\* C20: a configuration change separates the settings before it from the
\* validations after it.  With the capability, the change leaves the global
\* record alone and leaves in the cache only requests made after the clear,
\* and every pass any step starts awaits what the cache then holds for its URI:
\* a request made in that step, or the entry that was there before the step
\* unless the step is a configuration change.  Without it, the change leaves
\* the cache alone and installs the section it carries, or the default record
\* when it carries none, and every pass any step starts gets the global record
\* as that step leaves it.
C20_SettingsAfterChange ==
    [][/\ \A sec \in Sections \cup {NoSection} :
             DidChangeConfiguration(sec)
             => IF hasConfigurationCapability
                THEN /\ globalSettings' = globalSettings
                     /\ \A u \in URIs :
                           documentSettings'[u] # NoEntry
                           => documentSettings'[u] \in NewFetches
                     /\ \A i \in NewPasses : passes'[i].promise \in NewFetches
                ELSE /\ documentSettings' = documentSettings
                     /\ globalSettings' =
                           (IF sec = NoSection THEN defaultSettings ELSE sec)
       /\ \A i \in NewPasses :
             LET u == heap'[passes'[i].doc].uri
             IN IF hasConfigurationCapability
                THEN /\ passes'[i].promise = documentSettings'[u]
                     /\ \/ passes'[i].promise \in NewFetches
                        \/ passes'[i].promise = documentSettings[u]
                ELSE passes'[i].settings = globalSettings'
       /\ \A i \in 1..Len(passes) :
             (passes[i].status = "awaiting" /\ passes'[i].status = "published")
             => passes'[i].settings = promises'[passes[i].promise].value]_vars

\* Without the capability a document was revalidated under the section one
\* configuration change carried and then under the default record a second
\* change, carrying no section, put back.
C20_Witness ==
    /\ ~hasConfigurationCapability
    /\ globalSettings = defaultSettings
    /\ \E i, j \in 1..Len(passes) :
          /\ i < j
          /\ passes[i].doc = passes[j].doc
          /\ passes[i].trigger = "config" /\ passes[i].settings \in Sections
          /\ passes[j].trigger = "config" /\ passes[j].settings = defaultSettings

====
